---- MODULE Spec2Model ----
(***************************************************************************)
(* Character-sheet application (src/app.py): one JSON record file per      *)
(* character id in data/characters, at most one portrait per id in        *)
(* static/uploads.  Text is modelled as a sequence of one-character        *)
(* strings so that strip(), lower(), rsplit() and int() are computed.      *)
(***************************************************************************)
EXTENDS Integers, Sequences, FiniteSets, TLC

\* ------------------------------------------------------------------ bounds
\* number of distinct values uuid4().hex can take in the model
NumIds == 2
\* number of requests that can be in flight at once (SpecConc)
NumProcs == 2

Ids == 1..NumIds
Procs == 1..NumProcs

\* ------------------------------------------------------------ text helpers
\* the character U+65E5, which NFKD leaves alone and ASCII encoding drops
NonAscii == "U+65E5"

IsSpace(c) == c \in {" ", "\t", "\n"}

RECURSIVE LStrip(_)
LStrip(s) == IF s # <<>> /\ IsSpace(Head(s)) THEN LStrip(Tail(s)) ELSE s

RECURSIVE RStrip(_)
RStrip(s) ==
    IF s # <<>> /\ IsSpace(s[Len(s)]) THEN RStrip(SubSeq(s, 1, Len(s) - 1)) ELSE s

\* str.strip()
Strip(s) == RStrip(LStrip(s))

\* str.lower() on the letters the model uses
LowerChar(c) ==
    CASE c = "P" -> "p"
      [] c = "N" -> "n"
      [] c = "G" -> "g"
      [] OTHER -> c

Lower(s) == [i \in 1..Len(s) |-> LowerChar(s[i])]

\* position of the last "." of s, 0 if there is none
RECURSIVE LastDot(_)
LastDot(s) ==
    IF s = <<>> THEN 0
    ELSE IF s[Len(s)] = "." THEN Len(s)
    ELSE LastDot(SubSeq(s, 1, Len(s) - 1))

\* s.rsplit(".", 1): one part if s has no ".", else the parts around the last "."
RSplit(s) ==
    IF LastDot(s) = 0 THEN <<s>>
    ELSE <<SubSeq(s, 1, LastDot(s) - 1), SubSeq(s, LastDot(s) + 1, Len(s))>>

Digits == <<"0", "1", "2", "3", "4", "5", "6", "7", "8", "9">>

IsDigit(c) == \E d \in 1..10 : Digits[d] = c

DigitValue(c) == (CHOOSE d \in 1..10 : Digits[d] = c) - 1

RECURSIVE DecimalValue(_)
DecimalValue(s) ==
    IF s = <<>> THEN 0
    ELSE 10 * DecimalValue(SubSeq(s, 1, Len(s) - 1)) + DigitValue(s[Len(s)])

AllDigits(s) == s # <<>> /\ \A i \in 1..Len(s) : IsDigit(s[i])

\* int(raw_value): surrounding whitespace and one sign are accepted;
\* anything else raises ValueError (ok = FALSE)
ParseInt(raw) ==
    LET s == Strip(raw)
        signed == s # <<>> /\ Head(s) \in {"-", "+"}
        body == IF signed THEN Tail(s) ELSE s
    IN  IF AllDigits(body)
        THEN [ok |-> TRUE,
              value |-> IF signed /\ Head(s) = "-" THEN 0 - DecimalValue(body)
                        ELSE DecimalValue(body)]
        ELSE [ok |-> FALSE, value |-> 0]

\* ------------------------------------------------------------ configuration
\* ATTRIBUTE_FIELDS, the keys only (the labels are display text)
ATTRIBUTE_FIELDS ==
    <<"strength", "dexterity", "constitution", "intelligence", "wisdom", "charisma">>

AttributeKeys == {ATTRIBUTE_FIELDS[i] : i \in 1..Len(ATTRIBUTE_FIELDS)}

\* f"attr_{key}"
AttrFormKey(key) ==
    CASE key = "strength" -> "attr_strength"
      [] key = "dexterity" -> "attr_dexterity"
      [] key = "constitution" -> "attr_constitution"
      [] key = "intelligence" -> "attr_intelligence"
      [] key = "wisdom" -> "attr_wisdom"
      [] key = "charisma" -> "attr_charisma"

ALLOWED_EXTENSIONS ==
    { <<"p", "n", "g">>, <<"j", "p", "g">>, <<"j", "p", "e", "g">>,
      <<"g", "i", "f">>, <<"w", "e", "b", "p">> }

\* Python's None
None == <<>>

\* ---------------------------------------------------------------- requests
\* request.form.get(key, default)
FormGet(form, key, default) == IF key \in DOMAIN form THEN form[key] ELSE default

\* request.files.get("image"): absent, or a FileStorage with a filename; the
\* bytes of an upload are identified with the upload itself
NoUpload == [present |-> FALSE, filename |-> <<>>]

Upload(filename) == [present |-> TRUE, filename |-> filename]

\* the last request served (route, id in the URL or in the redirect, file
\* sent) and its response (status, redirect target, flashed categories, the
\* character handed to the template)
NoBody == None

Response(op, id, upload, status, location, flashes, body) ==
    [op |-> op, id |-> id, upload |-> upload, status |-> status,
     location |-> location, flashes |-> flashes, body |-> body]

\* ------------------------------------------------------------- Image Store
\* allowed_file without the allow-list: any name with a "." passes
allowed_file_any_extension(filename) ==
    \E i \in 1..Len(filename) : filename[i] = "."

\* allowed_file(filename)
allowed_file(filename) ==
    /\ \E i \in 1..Len(filename) : filename[i] = "."
    /\ Lower(RSplit(filename)[2]) \in ALLOWED_EXTENSIONS

RECURSIVE AsciiSafe(_)
AsciiSafe(s) ==
    IF s = <<>> THEN <<>>
    ELSE IF Head(s) = NonAscii \/ IsSpace(Head(s)) \/ Head(s) = "/"
         THEN AsciiSafe(Tail(s))
         ELSE <<Head(s)>> \o AsciiSafe(Tail(s))

RECURSIVE LStripDots(_)
LStripDots(s) == IF s # <<>> /\ Head(s) \in {".", "_"} THEN LStripDots(Tail(s)) ELSE s

RECURSIVE RStripDots(_)
RStripDots(s) ==
    IF s # <<>> /\ s[Len(s)] \in {".", "_"}
    THEN RStripDots(SubSeq(s, 1, Len(s) - 1)) ELSE s

\* werkzeug.utils.secure_filename as called at line 72: characters outside
\* ASCII are dropped, then leading and trailing "." and "_" are stripped
\* (the uploads of the model hold no whitespace inside the name)
secure_filename(filename) == RStripDots(LStripDots(AsciiSafe(filename)))

\* f"uploads/{final_name}" with final_name = f"{character_id}.{extension}"
ImageRef(character_id, extension) == <<"uploads", character_id, extension>>

\* Path(image).name, the file name inside UPLOAD_FOLDER
PathName(image) == <<image[2], image[3]>>

\* Python truthiness of an image reference (None and "" are falsy)
Truthy(image) == image # None

Exists(fs, name) == name \in DOMAIN fs

\* uploaded_file.save(destination): creates or overwrites
SaveFile(fs, name, content) ==
    [n \in DOMAIN fs \cup {name} |-> IF n = name THEN content ELSE fs[n]]

\* path.unlink()
Unlink(fs, name) == [n \in DOMAIN fs \ {name} |-> fs[n]]

\* lines 64-73 of handle_image_upload, which read the upload only: the
\* early returns, and the extension taken from the sanitised name; "raised"
\* when rsplit(".", 1)[1] indexes a one-part list (IndexError)
UploadedName(uploaded_file) ==
    IF ~uploaded_file.present \/ uploaded_file.filename = <<>>
    THEN [kind |-> "absent", extension |-> <<>>]
    ELSE IF ~allowed_file(uploaded_file.filename)
    THEN [kind |-> "rejected", extension |-> <<>>]
    ELSE LET parts == RSplit(secure_filename(uploaded_file.filename))
         IN  IF Len(parts) < 2
             THEN [kind |-> "raised", extension |-> <<>>]
             ELSE [kind |-> "accepted", extension |-> Lower(parts[2])]

\* -------------------------------------------------------------- Form Codec
\* int(raw_value) with the ValueError branch
AttributeValue(form, key) ==
    LET parsed == ParseInt(FormGet(form, AttrFormKey(key), <<>>))
    IN  IF parsed.ok THEN parsed.value ELSE 0

\* request.form.get("level", "1").strip() or "1"
LevelValue(form) ==
    LET stripped == Strip(FormGet(form, "level", <<"1">>))
    IN  IF stripped = <<>> THEN <<"1">> ELSE stripped

\* existing.get("image") if existing else None
ExistingImage(existing) ==
    IF "image" \in DOMAIN existing THEN existing.image ELSE None

\* FormFields with the blank form's default of 10 (line 128) on ValueError
FormFields_default_ten(form) ==
    [name |-> Strip(FormGet(form, "name", <<>>)),
     race |-> Strip(FormGet(form, "race", <<>>)),
     character_class |-> Strip(FormGet(form, "character_class", <<>>)),
     background |-> Strip(FormGet(form, "background", <<>>)),
     level |-> LevelValue(form),
     hit_points |-> Strip(FormGet(form, "hit_points", <<>>)),
     armor_class |-> Strip(FormGet(form, "armor_class", <<>>)),
     speed |-> Strip(FormGet(form, "speed", <<>>)),
     attributes |->
        [key \in AttributeKeys |->
            IF ParseInt(FormGet(form, AttrFormKey(key), <<>>)).ok
            THEN AttributeValue(form, key) ELSE 10],
     proficiencies |-> FormGet(form, "proficiencies", <<>>),
     equipment |-> FormGet(form, "equipment", <<>>),
     spells |-> FormGet(form, "spells", <<>>),
     notes |-> FormGet(form, "notes", <<>>)]

\* lines 87-108 of extract_character_form, which read the form only
FormFields(form) ==
    [name |-> Strip(FormGet(form, "name", <<>>)),
     race |-> Strip(FormGet(form, "race", <<>>)),
     character_class |-> Strip(FormGet(form, "character_class", <<>>)),
     background |-> Strip(FormGet(form, "background", <<>>)),
     level |-> LevelValue(form),
     hit_points |-> Strip(FormGet(form, "hit_points", <<>>)),
     armor_class |-> Strip(FormGet(form, "armor_class", <<>>)),
     speed |-> Strip(FormGet(form, "speed", <<>>)),
     attributes |-> [key \in AttributeKeys |-> AttributeValue(form, key)],
     proficiencies |-> FormGet(form, "proficiencies", <<>>),
     equipment |-> FormGet(form, "equipment", <<>>),
     spells |-> FormGet(form, "spells", <<>>),
     notes |-> FormGet(form, "notes", <<>>)]

\* ------------------------------------------------------------ Record Store
HasRecord(rs, character_id) == character_id \in DOMAIN rs

\* json.load of the record file, then data["id"] = character_id
load_character(rs, character_id) ==
    [k \in DOMAIN rs[character_id] \cup {"id"} |->
        IF k = "id" THEN character_id ELSE rs[character_id][k]]

\* json.dump(character, fp) into save_path opened with "w"
WriteRecord(rs, character_id, character) ==
    [i \in DOMAIN rs \cup {character_id} |->
        IF i = character_id THEN character ELSE rs[i]]

\* path.unlink() of the record file
UnlinkRecord(rs, character_id) == [i \in DOMAIN rs \ {character_id} |-> rs[i]]

\* ------------------------------------------------------------------ inputs
TextKeys ==
    {"name", "race", "character_class", "background", "level", "hit_points",
     "armor_class", "speed", "proficiencies", "equipment", "spells", "notes"}

FormKeys == TextKeys \cup {AttrFormKey(key) : key \in AttributeKeys}

EmptyForm == [k \in FormKeys |-> <<>>]

\* a form filled in canonically
FormBob ==
    [EmptyForm EXCEPT !["name"] = <<"B", "o", "b">>,
                      !["level"] = <<"3">>,
                      !["attr_strength"] = <<"1", "5">>,
                      !["attr_dexterity"] = <<"8">>,
                      !["attr_constitution"] = <<"8">>,
                      !["attr_intelligence"] = <<"8">>,
                      !["attr_wisdom"] = <<"8">>,
                      !["attr_charisma"] = <<"8">>,
                      !["notes"] = <<"h", "i">>]

\* the same character typed with padding and a non-number, in a request
\* that carries neither a level nor most of the attribute fields
FormPadded ==
    [k \in {"name", "race", "attr_strength", "attr_dexterity", "notes"} |->
        CASE k = "name" -> <<" ", "B", "o", "b", " ">>
          [] k = "race" -> <<"e", "l", "f", " ">>
          [] k = "attr_strength" -> <<"a", "b", "c">>
          [] k = "attr_dexterity" -> <<" ", "-", "2">>
          [] k = "notes" -> <<" ", "h", "i", "\n">>]

\* a name that is empty after trimming
FormBlankName == [EmptyForm EXCEPT !["name"] = <<" ", "\t">>, !["level"] = <<" ">>]

Forms == {FormBob, FormPadded, FormBlankName}

Uploads ==
    { NoUpload,
      Upload(<<>>),
      Upload(<<"P", ".", "P", "N", "G">>),
      Upload(<<"p", ".", "j", "p", "g">>),
      Upload(<<"p", ".", "e", "x", "e">>),
      Upload(<<"p">>),
      Upload(<<NonAscii, ".", "p", "n", "g">>) }

\* what the request parsing yields for each input of the model, computed once
UploadedNames == [u \in Uploads |-> UploadedName(u)]

ExtractedFields == [f \in Forms |-> FormFields(f)]

\* handle_image_upload that unlinks the previous image without comparing it
\* with the new path (line 79 reduced to `if previous_image:`)
handle_image_upload_unlinks_same(fs, character_id, previous_image, uploaded_file) ==
    LET parsed == UploadedNames[uploaded_file]
        new_image == ImageRef(character_id, parsed.extension)
        saved == SaveFile(fs, <<character_id, parsed.extension>>, uploaded_file)
    IN  CASE parsed.kind \in {"absent", "rejected"} ->
                [outcome |-> "returned", image |-> previous_image, files |-> fs,
                 flashes |-> IF parsed.kind = "rejected" THEN <<"error">> ELSE <<>>]
          [] parsed.kind = "raised" ->
                [outcome |-> "raised", image |-> previous_image, files |-> fs,
                 flashes |-> <<>>]
          [] parsed.kind = "accepted" ->
                [outcome |-> "returned", image |-> new_image,
                 files |-> IF /\ Truthy(previous_image)
                              /\ Exists(saved, PathName(previous_image))
                           THEN Unlink(saved, PathName(previous_image))
                           ELSE saved,
                 flashes |-> <<>>]

\* handle_image_upload whose early return of line 66 is `return None`
handle_image_upload_returns_none(fs, character_id, previous_image, uploaded_file) ==
    LET parsed == UploadedNames[uploaded_file]
        new_image == ImageRef(character_id, parsed.extension)
        saved == SaveFile(fs, <<character_id, parsed.extension>>, uploaded_file)
    IN  CASE parsed.kind = "absent" ->
                [outcome |-> "returned", image |-> None, files |-> fs,
                 flashes |-> <<>>]
          [] parsed.kind = "rejected" ->
                [outcome |-> "returned", image |-> previous_image, files |-> fs,
                 flashes |-> <<"error">>]
          [] parsed.kind = "raised" ->
                [outcome |-> "raised", image |-> previous_image, files |-> fs,
                 flashes |-> <<>>]
          [] parsed.kind = "accepted" ->
                [outcome |-> "returned", image |-> new_image,
                 files |-> IF /\ Truthy(previous_image)
                              /\ previous_image # new_image
                              /\ Exists(saved, PathName(previous_image))
                           THEN Unlink(saved, PathName(previous_image))
                           ELSE saved,
                 flashes |-> <<>>]

\* handle_image_upload run to completion on image store fs
handle_image_upload(fs, character_id, previous_image, uploaded_file) ==
    LET parsed == UploadedNames[uploaded_file]
        final_name == <<character_id, parsed.extension>>
        new_image == ImageRef(character_id, parsed.extension)
        saved == SaveFile(fs, final_name, uploaded_file)
    IN  CASE parsed.kind = "absent" ->
                [outcome |-> "returned", image |-> previous_image, files |-> fs,
                 flashes |-> <<>>]
          [] parsed.kind = "rejected" ->
                [outcome |-> "returned", image |-> previous_image, files |-> fs,
                 flashes |-> <<"error">>]
          [] parsed.kind = "raised" ->
                [outcome |-> "raised", image |-> previous_image, files |-> fs,
                 flashes |-> <<>>]
          [] parsed.kind = "accepted" ->
                [outcome |-> "returned", image |-> new_image,
                 files |-> IF /\ Truthy(previous_image)
                              /\ previous_image # new_image
                              /\ Exists(saved, PathName(previous_image))
                           THEN Unlink(saved, PathName(previous_image))
                           ELSE saved,
                 flashes |-> <<>>]

\* extract_character_form: the form's fields and line 109, the image carried
\* over from the existing record
extract_character_form(form, existing) ==
    [k \in DOMAIN ExtractedFields[form] \cup {"image"} |->
        IF k = "image" THEN ExistingImage(existing) ELSE ExtractedFields[form][k]]

\* ------------------------------------------------------------------- state
VARIABLES
    records,    \* DATA_DIR: character id -> the dict stored in <id>.json
    files,      \* UPLOAD_FOLDER: file name <<id, extension>> -> the upload saved
    resp,       \* the last request served to completion and its response
    pc,         \* per in-flight request: the statement it is about to execute
    req,        \* per in-flight request: route and character id
    loc         \* per in-flight request: the handler's local variables

vars == <<records, files, resp, pc, req, loc>>

NoId == 0

NoRequest == [op |-> "none", id |-> NoId]

NoLocals == [existing |-> None, character |-> None, image |-> None]

Init ==
    /\ records = <<>>
    /\ files = <<>>
    /\ resp = Response("none", NoId, NoUpload, 0, "none", <<>>, NoBody)
    /\ pc = [p \in Procs |-> "idle"]
    /\ req = [p \in Procs |-> NoRequest]
    /\ loc = [p \in Procs |-> NoLocals]

\* --------------------------------------------- handlers, run to completion
\* POST /characters; character_id is the value uuid4().hex returns, taken
\* to differ from every id in use
create_character(character_id, form, upload) ==
    LET character == extract_character_form(form, None)
        up == handle_image_upload(files, character_id, None, upload)
    IN  /\ ~HasRecord(records, character_id)
        /\ IF character.name = <<>>
           THEN /\ resp' = Response("create", NoId, upload, 302, "new_character",
                                    <<"error">>, NoBody)
                /\ UNCHANGED <<records, files>>
           ELSE IF up.outcome = "raised"
           THEN /\ resp' = Response("create", NoId, upload, 500, "none", <<>>, NoBody)
                /\ UNCHANGED <<records, files>>
           ELSE /\ files' = up.files
                /\ records' = WriteRecord(records, character_id,
                                          [character EXCEPT !.image = up.image])
                /\ resp' = Response("create", character_id, upload, 302, "view_character",
                                    up.flashes \o <<"success">>, NoBody)

\* GET /characters/<character_id>
view_character(character_id) ==
    /\ resp' = IF HasRecord(records, character_id)
               THEN Response("view", character_id, NoUpload, 200, "none", <<>>,
                             load_character(records, character_id))
               ELSE Response("view", character_id, NoUpload, 404, "none", <<>>, NoBody)
    /\ UNCHANGED <<records, files>>

\* GET /characters/<character_id>/edit
edit_character(character_id) ==
    /\ resp' = IF HasRecord(records, character_id)
               THEN Response("edit", character_id, NoUpload, 200, "none", <<>>,
                             load_character(records, character_id))
               ELSE Response("edit", character_id, NoUpload, 404, "none", <<>>, NoBody)
    /\ UNCHANGED <<records, files>>

\* update_character with the upload handled before the name is checked
update_character_uploads_first(character_id, form, upload) ==
    IF ~HasRecord(records, character_id)
    THEN /\ resp' = Response("update", character_id, upload, 404, "none", <<>>,
                             NoBody)
         /\ UNCHANGED <<records, files>>
    ELSE LET existing == load_character(records, character_id)
             character == extract_character_form(form, existing)
             up == handle_image_upload(files, character_id,
                                       ExistingImage(existing), upload)
         IN  IF up.outcome = "raised"
             THEN /\ resp' = Response("update", character_id, upload, 500, "none",
                                      <<>>, NoBody)
                  /\ UNCHANGED <<records, files>>
             ELSE IF character.name = <<>>
             THEN /\ resp' = Response("update", character_id, upload, 302,
                                      "edit_character", <<"error">>, NoBody)
                  /\ files' = up.files
                  /\ UNCHANGED records
             ELSE /\ files' = up.files
                  /\ records' = WriteRecord(records, character_id,
                                            [character EXCEPT !.image = up.image])
                  /\ resp' = Response("update", character_id, upload, 302,
                                      "view_character",
                                      up.flashes \o <<"success">>, NoBody)

\* POST /characters/<character_id>
update_character(character_id, form, upload) ==
    IF ~HasRecord(records, character_id)
    THEN /\ resp' = Response("update", character_id, upload, 404, "none", <<>>, NoBody)
         /\ UNCHANGED <<records, files>>
    ELSE LET existing == load_character(records, character_id)
             character == extract_character_form(form, existing)
             up == handle_image_upload(files, character_id,
                                       ExistingImage(existing), upload)
         IN  IF character.name = <<>>
             THEN /\ resp' = Response("update", character_id, upload, 302,
                                      "edit_character", <<"error">>, NoBody)
                  /\ UNCHANGED <<records, files>>
             ELSE IF up.outcome = "raised"
             THEN /\ resp' = Response("update", character_id, upload, 500, "none", <<>>,
                                      NoBody)
                  /\ UNCHANGED <<records, files>>
             ELSE /\ files' = up.files
                  /\ records' = WriteRecord(records, character_id,
                                            [character EXCEPT !.image = up.image])
                  /\ resp' = Response("update", character_id, upload, 302,
                                      "view_character",
                                      up.flashes \o <<"success">>, NoBody)

\* delete_character that leaves the image file behind (lines 201-204 missing)
delete_character_keeps_image(character_id) ==
    IF ~HasRecord(records, character_id)
    THEN /\ resp' = Response("delete", character_id, NoUpload, 404, "none", <<>>,
                             NoBody)
         /\ UNCHANGED <<records, files>>
    ELSE /\ records' = UnlinkRecord(records, character_id)
         /\ resp' = Response("delete", character_id, NoUpload, 302, "index",
                             <<"info">>, NoBody)
         /\ UNCHANGED files

\* delete_character without load_character: the exists() guards of lines 199
\* and 203 let it answer an unknown id with the redirect
delete_character_no_load(character_id) ==
    /\ records' = UnlinkRecord(records, character_id)
    /\ files' = IF /\ HasRecord(records, character_id)
                   /\ Truthy(records[character_id].image)
                   /\ Exists(files, PathName(records[character_id].image))
                THEN Unlink(files, PathName(records[character_id].image))
                ELSE files
    /\ resp' = Response("delete", character_id, NoUpload, 302, "index", <<"info">>,
                        NoBody)

\* POST /characters/<character_id>/delete
delete_character(character_id) ==
    IF ~HasRecord(records, character_id)
    THEN /\ resp' = Response("delete", character_id, NoUpload, 404, "none", <<>>, NoBody)
         /\ UNCHANGED <<records, files>>
    ELSE LET character == load_character(records, character_id)
         IN  /\ records' = UnlinkRecord(records, character_id)
             /\ files' = IF /\ Truthy(ExistingImage(character))
                            /\ Exists(files, PathName(character.image))
                         THEN Unlink(files, PathName(character.image))
                         ELSE files
             /\ resp' = Response("delete", character_id, NoUpload, 302, "index",
                                 <<"info">>, NoBody)

Create == \E i \in Ids, f \in Forms, u \in Uploads :
    create_character(i, f, u) /\ UNCHANGED <<pc, req, loc>>

View == \E i \in Ids : view_character(i) /\ UNCHANGED <<pc, req, loc>>

Edit == \E i \in Ids : edit_character(i) /\ UNCHANGED <<pc, req, loc>>

Update == \E i \in Ids, f \in Forms, u \in Uploads :
    update_character(i, f, u) /\ UNCHANGED <<pc, req, loc>>

Delete == \E i \in Ids : delete_character(i) /\ UNCHANGED <<pc, req, loc>>

Next == Create \/ View \/ Edit \/ Update \/ Delete

\* requests served one after another, each to completion
Spec == Init /\ [][Next]_vars

\* ------------------------------------- handlers, one filesystem step at a time
\* the forms and uploads of the requests taken step by step; a request's
\* form and upload are drawn at the statement that first reads them
StepForms == {FormBob, FormBlankName}

StepUploads ==
    { NoUpload,
      Upload(<<"P", ".", "P", "N", "G">>),
      Upload(<<"p", ".", "j", "p", "g">>),
      Upload(<<NonAscii, ".", "p", "n", "g">>) }

\* the request of p is over (returned, aborted or raised): its locals are gone
Finish(p) ==
    /\ pc' = [pc EXCEPT ![p] = "idle"]
    /\ req' = [req EXCEPT ![p] = NoRequest]
    /\ loc' = [loc EXCEPT ![p] = NoLocals]

Goto(p, label) == pc' = [pc EXCEPT ![p] = label]

\* create_character, lines 145-150: no file is touched before the upload; a
\* request with an empty name returns at line 150 and leaves no trace.  The
\* value of uuid4().hex differs from every id on disk or in a request
BeginCreate(p) ==
    \E i \in Ids, f \in StepForms :
        LET character == extract_character_form(f, None)
        IN  /\ pc[p] = "idle"
            /\ ~HasRecord(records, i)
            /\ \A q \in Procs : req[q].id # i
            /\ character.name # <<>>
            /\ req' = [req EXCEPT ![p] = [op |-> "create", id |-> i]]
            /\ loc' = [loc EXCEPT ![p] = [existing |-> None,
                                          character |-> character, image |-> None]]
            /\ Goto(p, "upload")
            /\ UNCHANGED <<records, files, resp>>

\* a POST to /characters/<id> or /characters/<id>/delete arrives
BeginUpdate(p) ==
    \E i \in Ids :
        /\ pc[p] = "idle"
        /\ req' = [req EXCEPT ![p] = [op |-> "update", id |-> i]]
        /\ Goto(p, "load_exists")
        /\ UNCHANGED <<records, files, resp, loc>>

BeginDelete(p) ==
    \E i \in Ids :
        /\ pc[p] = "idle"
        /\ req' = [req EXCEPT ![p] = [op |-> "delete", id |-> i]]
        /\ Goto(p, "load_exists")
        /\ UNCHANGED <<records, files, resp, loc>>

\* load_character, line 44: path.exists(), abort(404) if not
LoadExists(p) ==
    /\ pc[p] = "load_exists"
    /\ IF HasRecord(records, req[p].id)
       THEN Goto(p, "load_read") /\ UNCHANGED <<req, loc>>
       ELSE Finish(p)
    /\ UNCHANGED <<records, files, resp>>

\* delete_character with the two removals swapped: image file, then record
DeleteNext_image_first(stage, character) ==
    CASE stage = "load" ->
            IF Truthy(ExistingImage(character)) THEN "image_exists"
            ELSE "record_exists"
      [] stage = "image" -> "record_exists"
      [] stage = "record" -> "return"

\* the stage of delete_character that follows `stage`, lines 197-206: the
\* record file goes first, then the image file if the record names one
DeleteNext(stage, character) ==
    CASE stage = "load" -> "record_exists"
      [] stage = "record" ->
            IF Truthy(ExistingImage(character)) THEN "image_exists" ELSE "return"
      [] stage = "image" -> "return"

\* p moves on to the next stage of delete_character
DeleteGoto(p, stage, character) ==
    IF DeleteNext(stage, character) = "return"
    THEN Finish(p)
    ELSE Goto(p, DeleteNext(stage, character)) /\ UNCHANGED req
         /\ loc' = [loc EXCEPT ![p].character = character]

\* load_character, lines 46-49: open and read the file (FileNotFoundError if
\* it went away since line 44); then the handler's code up to its next file
\* access: lines 180-184 of update_character, line 198 of delete_character
LoadRead(p) ==
    /\ pc[p] = "load_read"
    /\ IF ~HasRecord(records, req[p].id)
       THEN Finish(p)
       ELSE \E f \in StepForms :
            LET existing == load_character(records, req[p].id)
                character == extract_character_form(f, existing)
            IN  IF req[p].op = "delete"
                THEN DeleteGoto(p, "load", existing)
                ELSE IF character.name = <<>>
                THEN Finish(p)
                ELSE /\ loc' = [loc EXCEPT ![p] = [existing |-> existing,
                                                   character |-> character,
                                                   image |-> None]]
                     /\ Goto(p, "upload")
                     /\ UNCHANGED req
    /\ UNCHANGED <<records, files, resp>>

\* handle_image_upload, lines 64-79: the early returns, uploaded_file.save
UploadSave(p) ==
    \E u \in StepUploads :
    LET parsed == UploadedNames[u]
        previous_image == ExistingImage(loc[p].existing)
        new_image == ImageRef(req[p].id, parsed.extension)
    IN  /\ pc[p] = "upload"
        /\ CASE parsed.kind \in {"absent", "rejected"} ->
                    /\ loc' = [loc EXCEPT ![p].image = previous_image]
                    /\ Goto(p, "write")
                    /\ UNCHANGED <<files, req>>
             [] parsed.kind = "raised" ->
                    Finish(p) /\ UNCHANGED files
             [] parsed.kind = "accepted" ->
                    /\ files' = SaveFile(files, <<req[p].id, parsed.extension>>, u)
                    /\ loc' = [loc EXCEPT ![p].image = new_image]
                    /\ Goto(p, IF Truthy(previous_image) /\ previous_image # new_image
                               THEN "old_exists" ELSE "write")
                    /\ UNCHANGED req
        /\ UNCHANGED <<records, resp>>

\* handle_image_upload, line 81: old_path.exists()
OldExists(p) ==
    /\ pc[p] = "old_exists"
    /\ Goto(p, IF Exists(files, PathName(ExistingImage(loc[p].existing)))
               THEN "old_unlink" ELSE "write")
    /\ UNCHANGED <<records, files, resp, req, loc>>

\* handle_image_upload, line 82: old_path.unlink(), FileNotFoundError if the
\* file went away since line 81
OldUnlink(p) ==
    LET old_name == PathName(ExistingImage(loc[p].existing))
    IN  /\ pc[p] = "old_unlink"
        /\ IF Exists(files, old_name)
           THEN /\ files' = Unlink(files, old_name)
                /\ Goto(p, "write")
                /\ UNCHANGED <<req, loc>>
           ELSE Finish(p) /\ UNCHANGED files
        /\ UNCHANGED <<records, resp>>

\* create_character lines 152-159, update_character lines 186-193: the image
\* reference goes into the record and the record file is written
WriteStep(p) ==
    /\ pc[p] = "write"
    /\ records' = WriteRecord(records, req[p].id,
                              [loc[p].character EXCEPT !.image = loc[p].image])
    /\ Finish(p)
    /\ UNCHANGED <<files, resp>>

\* delete_character, line 199: path.exists()
RecordExists(p) ==
    /\ pc[p] = "record_exists"
    /\ IF HasRecord(records, req[p].id)
       THEN Goto(p, "record_unlink") /\ UNCHANGED <<req, loc>>
       ELSE DeleteGoto(p, "record", loc[p].character)
    /\ UNCHANGED <<records, files, resp>>

\* delete_character, line 200: path.unlink()
RecordUnlink(p) ==
    /\ pc[p] = "record_unlink"
    /\ IF HasRecord(records, req[p].id)
       THEN /\ records' = UnlinkRecord(records, req[p].id)
            /\ DeleteGoto(p, "record", loc[p].character)
       ELSE Finish(p) /\ UNCHANGED records
    /\ UNCHANGED <<files, resp>>

\* delete_character, line 203: image_path.exists()
ImageExists(p) ==
    /\ pc[p] = "image_exists"
    /\ IF Exists(files, PathName(loc[p].character.image))
       THEN Goto(p, "image_unlink") /\ UNCHANGED <<req, loc>>
       ELSE DeleteGoto(p, "image", loc[p].character)
    /\ UNCHANGED <<records, files, resp>>

\* delete_character, line 204: image_path.unlink()
ImageUnlink(p) ==
    /\ pc[p] = "image_unlink"
    /\ IF Exists(files, PathName(loc[p].character.image))
       THEN /\ files' = Unlink(files, PathName(loc[p].character.image))
            /\ DeleteGoto(p, "image", loc[p].character)
       ELSE Finish(p) /\ UNCHANGED files
    /\ UNCHANGED <<records, resp>>

AllIdle == \A p \in Procs : pc[p] = "idle"

\* every request but p's is over
Alone(p) == \A q \in Procs \ {p} : pc[q] = "idle"

StepBeginCreate == \E p \in Procs : Alone(p) /\ BeginCreate(p)
StepBeginUpdate == \E p \in Procs : Alone(p) /\ BeginUpdate(p)
StepBeginDelete == \E p \in Procs : Alone(p) /\ BeginDelete(p)
StepLoadExists == \E p \in Procs : Alone(p) /\ LoadExists(p)
StepLoadRead == \E p \in Procs : Alone(p) /\ LoadRead(p)
StepUploadSave == \E p \in Procs : Alone(p) /\ UploadSave(p)
StepOldExists == \E p \in Procs : Alone(p) /\ OldExists(p)
StepOldUnlink == \E p \in Procs : Alone(p) /\ OldUnlink(p)
StepWrite == \E p \in Procs : Alone(p) /\ WriteStep(p)
StepRecordExists == \E p \in Procs : Alone(p) /\ RecordExists(p)
StepRecordUnlink == \E p \in Procs : Alone(p) /\ RecordUnlink(p)
StepImageExists == \E p \in Procs : Alone(p) /\ ImageExists(p)
StepImageUnlink == \E p \in Procs : Alone(p) /\ ImageUnlink(p)

NextSteps ==
    \/ StepBeginCreate \/ StepBeginUpdate \/ StepBeginDelete
    \/ StepLoadExists \/ StepLoadRead
    \/ StepUploadSave \/ StepOldExists \/ StepOldUnlink \/ StepWrite
    \/ StepRecordExists \/ StepRecordUnlink \/ StepImageExists \/ StepImageUnlink

\* requests served one after another, each seen one filesystem step at a time
SpecSteps == Init /\ [][NextSteps]_vars

ConcBeginCreate == \E p \in Procs : BeginCreate(p)
ConcBeginUpdate == \E p \in Procs : BeginUpdate(p)
ConcBeginDelete == \E p \in Procs : BeginDelete(p)
ConcLoadExists == \E p \in Procs : LoadExists(p)
ConcLoadRead == \E p \in Procs : LoadRead(p)
ConcUploadSave == \E p \in Procs : UploadSave(p)
ConcOldExists == \E p \in Procs : OldExists(p)
ConcOldUnlink == \E p \in Procs : OldUnlink(p)
ConcWrite == \E p \in Procs : WriteStep(p)
ConcRecordExists == \E p \in Procs : RecordExists(p)
ConcRecordUnlink == \E p \in Procs : RecordUnlink(p)
ConcImageExists == \E p \in Procs : ImageExists(p)
ConcImageUnlink == \E p \in Procs : ImageUnlink(p)

NextConc ==
    \/ ConcBeginCreate \/ ConcBeginUpdate \/ ConcBeginDelete
    \/ ConcLoadExists \/ ConcLoadRead
    \/ ConcUploadSave \/ ConcOldExists \/ ConcOldUnlink \/ ConcWrite
    \/ ConcRecordExists \/ ConcRecordUnlink \/ ConcImageExists \/ ConcImageUnlink

\* up to NumProcs requests in flight, their filesystem steps interleaved (the
\* threaded server of app.run, with no lock around any handler)
SpecConc == Init /\ [][NextConc]_vars

\* ================================================================== claims
\* ---- vocabulary of the claims, stated apart from the handlers
\* the name field is empty after trimming whitespace
NameIsBlank(form) == Strip(FormGet(form, "name", <<>>)) = <<>>

\* no image file comes with the request
NoFileSubmitted(upload) == ~upload.present \/ upload.filename = <<>>

\* the text after the last "." of the name, lower-cased, is in the allow-list
HasAllowedExtension(filename) ==
    /\ LastDot(filename) > 0
    /\ Lower(SubSeq(filename, LastDot(filename) + 1, Len(filename)))
          \in ALLOWED_EXTENSIONS

ExtensionOf(filename) ==
    Lower(SubSeq(filename, LastDot(filename) + 1, Len(filename)))

\* the image files of character i
IdFiles(fs, i) == {n \in DOMAIN fs : n[1] = i}

ImageOf(rs, i) == IF HasRecord(rs, i) THEN rs[i].image ELSE None

\* every field of a record but id and image
RecordFields ==
    {"name", "race", "character_class", "background", "level", "hit_points",
     "armor_class", "speed", "attributes", "proficiencies", "equipment",
     "spells", "notes"}

Fields(character) == [k \in RecordFields |-> character[k]]

StoresUnchanged == records' = records /\ files' = files

\* the step just taken serves this update, create, ... request
UpdateOf(form) ==
    resp'.op = "update" /\ update_character(resp'.id, form, resp'.upload)

CreateOf(i, form) ==
    resp'.op = "create" /\ create_character(i, form, resp'.upload)

\* C1: with requests served one after another, every stored record whose
\* image field is non-empty names a file that exists in the image store.
C1_ImageRefersToFile ==
    \A i \in DOMAIN records :
        Truthy(records[i].image) => Exists(files, PathName(records[i].image))

\* a character whose portrait was just replaced by one of another extension
C1_Witness ==
    /\ resp.op = "update" /\ resp.location = "view_character"
    /\ UploadedNames[resp.upload].kind = "accepted"
    /\ HasRecord(records, resp.id)
    /\ records[resp.id].image = ImageRef(resp.id, <<"j", "p", "g">>)
    /\ \E j \in DOMAIN records \ {resp.id} : Truthy(records[j].image)

\* C2: a delete of an existing character leaves neither its record file nor
\* the image file its record named; from then on the record stays absent
\* until a create stores it again, and a view of an id without a record is
\* answered 404.
C2_DeleteRemovesBoth ==
    [][\A i \in Ids :
        /\ (resp'.op = "delete" /\ resp'.id = i /\ HasRecord(records, i)) =>
              /\ ~HasRecord(records', i)
              /\ Truthy(records[i].image) =>
                    ~Exists(files', PathName(records[i].image))
        /\ (~HasRecord(records, i) /\ HasRecord(records', i)) =>
              (resp'.op = "create" /\ resp'.id = i)
        /\ (resp'.op = "view" /\ resp'.id = i /\ ~HasRecord(records, i)) =>
              resp'.status = 404
      ]_vars

\* a character with a portrait was just deleted while another one is stored
C2_Witness ==
    /\ resp.op = "delete" /\ resp.status = 302
    /\ ~HasRecord(records, resp.id)
    /\ IdFiles(files, resp.id) = {}
    /\ DOMAIN records # {}

\* C3: after an update (name not blank) that uploads a file with an allowed
\* extension for a character that has an image, the old image file is gone
\* unless it has the new file's name, the image store holds exactly one file
\* of that id, <id>.<new extension>, and the saved record names it.
C3_UpdateReplacesImage ==
    [][\A f \in Forms :
        LET i == resp'.id
            u == resp'.upload
            new_name == <<i, ExtensionOf(u.filename)>>
        IN  ( /\ UpdateOf(f)
              /\ ~NameIsBlank(f)
              /\ HasRecord(records, i)
              /\ Truthy(ImageOf(records, i))
              /\ ~NoFileSubmitted(u)
              /\ HasAllowedExtension(u.filename) ) =>
            /\ PathName(records[i].image) # new_name =>
                  ~Exists(files', PathName(records[i].image))
            /\ IdFiles(files', i) = {new_name}
            /\ HasRecord(records', i)
            /\ records'[i].image = ImageRef(i, ExtensionOf(u.filename))
      ]_vars

\* C4 as stated: a create or update whose name is blank changes no file and
\* is answered with the redirect to its form (new form, edit form) and an
\* error flash.
C4_BlankNameRedirects ==
    [][\A f \in Forms :
        NameIsBlank(f) =>
          /\ (\E i \in Ids : CreateOf(i, f)) =>
                /\ StoresUnchanged
                /\ resp'.status = 302 /\ resp'.location = "new_character"
                /\ resp'.flashes = <<"error">>
          /\ UpdateOf(f) =>
                /\ StoresUnchanged
                /\ resp'.status = 302 /\ resp'.location = "edit_character"
                /\ resp'.flashes = <<"error">>
      ]_vars

\* C4, amended: a create or update whose name is blank changes no file; a
\* create is answered with the redirect to the new form and an error flash,
\* an update of an existing character with the redirect to the edit form and
\* an error flash, an update of an unknown id with 404.
C4_BlankNameChangesNothing ==
    [][\A f \in Forms :
        NameIsBlank(f) =>
          /\ (\E i \in Ids : CreateOf(i, f)) =>
                /\ StoresUnchanged
                /\ resp'.status = 302 /\ resp'.location = "new_character"
                /\ resp'.flashes = <<"error">>
          /\ UpdateOf(f) =>
                /\ StoresUnchanged
                /\ IF HasRecord(records, resp'.id)
                   THEN /\ resp'.status = 302
                        /\ resp'.location = "edit_character"
                        /\ resp'.flashes = <<"error">>
                   ELSE resp'.status = 404
      ]_vars

\* a blank-name update that came with an acceptable image, for a character
\* that is stored without one
C4_Witness ==
    /\ resp.op = "update" /\ resp.location = "edit_character"
    /\ resp.flashes = <<"error">>
    /\ UploadedNames[resp.upload].kind = "accepted"
    /\ HasRecord(records, resp.id)
    /\ records[resp.id].image = None

\* C5: an update of an existing character with a name and no file submitted
\* saves the record with the image field it had, and changes no image file.
C5_UpdateKeepsImage ==
    [][\A f \in Forms :
        ( /\ UpdateOf(f)
          /\ ~NameIsBlank(f)
          /\ HasRecord(records, resp'.id)
          /\ NoFileSubmitted(resp'.upload) ) =>
        /\ HasRecord(records', resp'.id)
        /\ records'[resp'.id].image = records[resp'.id].image
        /\ Fields(records'[resp'.id]) = FormFields(f)
        /\ files' = files
        /\ resp'.location = "view_character"
      ]_vars

\* a character with a portrait was just updated without a file
C5_Witness ==
    /\ resp.op = "update" /\ resp.location = "view_character"
    /\ NoFileSubmitted(resp.upload)
    /\ HasRecord(records, resp.id)
    /\ Truthy(records[resp.id].image)
    /\ Exists(files, PathName(records[resp.id].image))

\* the request carries a file whose extension is not in the allow-list
RejectedFile(upload) ==
    ~NoFileSubmitted(upload) /\ ~HasAllowedExtension(upload.filename)

\* C6 as stated: a create or update with a name and a file whose extension
\* is not allowed still saves the record from the submitted text fields (as
\* the form codec reads them), keeps the image field at its previous value
\* (none on create), and changes no image file.
C6_BadExtensionStillSaves ==
    [][\A f \in Forms :
        (~NameIsBlank(f) /\ RejectedFile(resp'.upload)) =>
          /\ \A i \in Ids : CreateOf(i, f) =>
                /\ HasRecord(records', i)
                /\ Fields(records'[i]) = FormFields(f)
                /\ records'[i].image = None
                /\ files' = files
          /\ UpdateOf(f) =>
                /\ HasRecord(records', resp'.id)
                /\ Fields(records'[resp'.id]) = FormFields(f)
                /\ records'[resp'.id].image = ImageOf(records, resp'.id)
                /\ files' = files
      ]_vars

\* C6, amended: the same for a create and for an update of an existing
\* character; an update of an id without a record saves nothing (404).
C6_BadExtensionSkipsImage ==
    [][\A f \in Forms :
        (~NameIsBlank(f) /\ RejectedFile(resp'.upload)) =>
          /\ \A i \in Ids : CreateOf(i, f) =>
                /\ HasRecord(records', i)
                /\ Fields(records'[i]) = FormFields(f)
                /\ records'[i].image = None
                /\ files' = files
          /\ (UpdateOf(f) /\ HasRecord(records, resp'.id)) =>
                /\ HasRecord(records', resp'.id)
                /\ Fields(records'[resp'.id]) = FormFields(f)
                /\ records'[resp'.id].image = records[resp'.id].image
                /\ files' = files
          /\ (UpdateOf(f) /\ ~HasRecord(records, resp'.id)) =>
                StoresUnchanged /\ resp'.status = 404
      ]_vars

\* portrait.exe was just sent for a character that has a portrait
C6_Witness ==
    /\ resp.op = "update" /\ resp.location = "view_character"
    /\ RejectedFile(resp.upload)
    /\ resp.flashes = <<"error", "success">>
    /\ HasRecord(records, resp.id)
    /\ Truthy(records[resp.id].image)

\* C7: a view, edit-form, update or delete request on an id without a record
\* file is answered 404 and changes no record file and no image file.
C7_UnknownIdIs404 ==
    [][(/\ resp'.op \in {"view", "edit", "update", "delete"}
        /\ ~HasRecord(records, resp'.id)) =>
       (resp'.status = 404 /\ StoresUnchanged)]_vars

\* an update with an acceptable image was just refused for an unknown id,
\* while another character is stored
C7_Witness ==
    /\ resp.op = "update" /\ resp.status = 404
    /\ UploadedNames[resp.upload].kind = "accepted"
    /\ ~HasRecord(records, resp.id)
    /\ DOMAIN records # {}

\* the text fields of a record
TextFields == RecordFields \ {"attributes"}

\* a stored attribute equals a submitted one when the text sent is a number
\* and that number is the one stored
SameAttribute(stored, raw) == ParseInt(raw).ok /\ ParseInt(raw).value = stored

\* the character equals the form as submitted, field by field
EqualsSubmitted(character, form) ==
    /\ \A k \in TextFields : character[k] = FormGet(form, k, <<>>)
    /\ \A key \in AttributeKeys :
          SameAttribute(character.attributes[key],
                        FormGet(form, AttrFormKey(key), <<>>))

\* the character equals the form once normalised: name, race, class,
\* background, hit points, armor class and speed trimmed; level trimmed, "1"
\* when blank; attributes as integers, 0 for anything that is no integer;
\* proficiencies, equipment, spells and notes as sent
EqualsNormalised(character, form) ==
    /\ \A k \in {"name", "race", "character_class", "background", "hit_points",
                 "armor_class", "speed"} :
          character[k] = Strip(FormGet(form, k, <<>>))
    /\ character.level =
          (IF Strip(FormGet(form, "level", <<>>)) = <<>> THEN <<"1">>
           ELSE Strip(FormGet(form, "level", <<>>)))
    /\ \A key \in AttributeKeys :
          character.attributes[key] =
             (IF ParseInt(FormGet(form, AttrFormKey(key), <<>>)).ok
              THEN ParseInt(FormGet(form, AttrFormKey(key), <<>>)).value ELSE 0)
    /\ \A k \in {"proficiencies", "equipment", "spells", "notes"} :
          character[k] = FormGet(form, k, <<>>)

\* what holds of every step whatever the codec does: a stored record changes
\* or goes only in an update or delete of its id, and a view of a stored id
\* returns the stored record with its id
ViewReadsStoredRecord ==
    /\ \A i \in DOMAIN records :
          (~HasRecord(records', i) \/ records'[i] # records[i]) =>
             (resp'.op \in {"update", "delete"} /\ resp'.id = i)
    /\ (resp'.op = "view" /\ HasRecord(records, resp'.id)) =>
          /\ resp'.status = 200
          /\ resp'.body.id = resp'.id
          /\ Fields(resp'.body) = Fields(records[resp'.id])

C9_QuiescentImageRefersToFile ==
    AllIdle =>
        \A i \in DOMAIN records :
            Truthy(records[i].image) => Exists(files, PathName(records[i].image))

\* the image the delete request of p found in the record it loaded
LoadedImage(p) == ExistingImage(loc[p].character)

\* C10 as stated: a delete loads the record, then removes the image file,
\* then the record file: when it removes the record file, the image file the
\* record names is gone.
C10_RecordRemovedLast ==
    [][\A p \in Procs :
        (req[p].op = "delete" /\ records' # records) =>
           /\ loc[p].character = load_character(records, req[p].id)
           /\ Truthy(LoadedImage(p)) => ~Exists(files, PathName(LoadedImage(p)))
      ]_vars

\* C10, amended: a delete loads the record, then removes the record file,
\* then the image file: when it removes the record file it holds the record
\* it loaded, and, requests being served one after another, when it removes
\* the image file the record file is gone.
C10_ImageRemovedLast ==
    [][\A p \in Procs :
        /\ (req[p].op = "delete" /\ records' # records) =>
              loc[p].character = load_character(records, req[p].id)
        /\ (req[p].op = "delete" /\ files' # files) =>
              /\ ~HasRecord(records, req[p].id)
              /\ files' = Unlink(files, PathName(LoadedImage(p)))
      ]_vars

\* a delete has removed the record file and is about to remove the image
C10_Witness ==
    \E p \in Procs :
        /\ req[p].op = "delete" /\ pc[p] = "image_unlink"
        /\ ~HasRecord(records, req[p].id)
        /\ Exists(files, PathName(LoadedImage(p)))

====
